---- MODULE Spec2Model ----
(***************************************************************************)
(* kv-session: HTTP sessions over Deno KV and a signed cookie.             *)
(*                                                                         *)
(* createSession resolves a session id from the request's signed cookie    *)
(* (or generates one), and KvSession gives get/set/delete/list over the    *)
(* store keys [keySpace, id, ...], destroy, refresh, persist and send.     *)
(*                                                                         *)
(* Idealisations, stated once:                                             *)
(*  - generateId draws 128 random bits; it is modelled as a choice among   *)
(*    the ids that were never issued before (no collision).                *)
(*  - an HMAC digest is modelled by the triple it authenticates: the       *)
(*    signing key, the cookie name and the cookie value.                   *)
(*  - Deno.Kv.list reads its entries in one batch when the namespace holds *)
(*    fewer entries than the batch size, as every namespace here does.     *)
(*  - the store orders string key-parts by their bytes; the random ids fall *)
(*    in any order among themselves (hexOrder) and before "name".           *)
(*  - an asynchronous method is a sequence of steps, one for each await     *)
(*    that leaves the event loop to other requests (store calls, signing).  *)
(***************************************************************************)
EXTENDS Naturals, Sequences, FiniteSets, TLC

\* ------------------------------------------------------------------ bounds
MaxIds == 3          \* ids generateId can hand out in one run
MaxEntries == 2      \* entries the store holds at a time
MaxSubLen == 1       \* key-parts in a sub-key given as a sequence
NumSessions == 2     \* KvSession objects alive at a time (one per request)
MaxRaced == 2        \* set calls recorded while they race one destroy / refresh call

Sessions == 1..NumSessions

\* ------------------------------------------------------------- vocabulary
IdNames == <<"id1", "id2", "id3", "id4", "id5", "id6">>
Ids == {IdNames[i] : i \in 1..MaxIds}

Undefined == "undefined"
Null == "null"

PlainParts == {"name"}
Values == {"bob", "eve"}

Range(f) == {f[x] : x \in DOMAIN f}

\* ---------------------------------------------------------------- options
DEFAULT_OPTIONS == [cookieName |-> "sid", keySpace |-> "sessions", kvPath |-> Undefined]

DEFAULT_KEY == "fb71680cce6b93787ab"
DEFAULT_OPTIONS_MOD ==
  [cookieName |-> "sid", keySpace |-> "sessions", kvPath |-> Undefined,
   signatureKeys |-> <<DEFAULT_KEY>>]

\* Object.assign(target, source): every own property of source is copied onto
\* target, a property whose value is undefined included.
ObjectAssign(target, source) ==
  [f \in (DOMAIN target) \cup (DOMAIN source) |->
     IF f \in DOMAIN source THEN source[f] ELSE target[f]]

\* the Partial<KvSessionOptions> objects a caller passes (session.ts)
NoOptions == [f \in {} |-> Undefined]
OptionInputs ==
  { NoOptions,
    [cookieName |-> "session_id"],
    [cookieName |-> "session_id", keySpace |-> "app", kvPath |-> "/data/kv"] }

\* the signing-key lists a caller passes, newest key first
KeyLists == { <<"k1">>, <<"k2", "k1">> }

\* the options objects a caller passes to mod.ts's createSession
OptionInputsMod ==
  { NoOptions,
    [signatureKeys |-> <<"k1">>],
    [cookieName |-> "session_id", keySpace |-> "app", signatureKeys |-> <<"k2", "k1">>] }

KvPaths == {Undefined, "/data/kv"}

\* ------------------------------------------------------------ the KV engine
VARIABLE
  hexOrder     \* the ids generateId has returned, in the byte order of their digits

\* the byte order of the strings used as key-parts (Deno KV orders keys by it):
\* an id is 32 hex digits, so it sorts before "name" and "sessions", and the ids
\* sort among themselves as their random digits fall; a key space is only ever
\* compared with a key space
PartOrder == <<"app">> \o hexOrder \o <<"name", "sessions">>
Rank(p) == CHOOSE i \in 1..Len(PartOrder) : PartOrder[i] = p

KvGet(store, key) ==
  IF key \in DOMAIN store
    THEN [found |-> TRUE, value |-> store[key]]
    ELSE [found |-> FALSE, value |-> Null]

\* faulty variant: a set that does not overwrite an existing entry
KvSetIfAbsent(store, key, value) ==
  [k \in (DOMAIN store) \cup {key} |-> IF k \in DOMAIN store THEN store[k] ELSE value]

KvSet(store, key, value) ==
  [k \in (DOMAIN store) \cup {key} |-> IF k = key THEN value ELSE store[k]]

KvDelete(store, key) ==
  [k \in (DOMAIN store) \ {key} |-> store[k]]

\* a prefix selector matches the keys that extend the prefix by at least one part
HasPrefix(key, prefix) ==
  /\ Len(key) > Len(prefix)
  /\ SubSeq(key, 1, Len(prefix)) = prefix

\* keys compare part by part; a key sorts after each of its proper prefixes
KeyLess(a, b) ==
  \/ /\ Len(a) < Len(b)
     /\ SubSeq(b, 1, Len(a)) = a
  \/ \E i \in 1..Len(a) :
       /\ i <= Len(b)
       /\ SubSeq(a, 1, i - 1) = SubSeq(b, 1, i - 1)
       /\ Rank(a[i]) < Rank(b[i])

RECURSIVE SortKeys(_)
SortKeys(keys) ==
  IF keys = {} THEN <<>>
  ELSE LET first == CHOOSE k \in keys : \A o \in keys \ {k} : KeyLess(k, o)
       IN <<first>> \o SortKeys(keys \ {first})

\* kv.list({ prefix }): the entries under the prefix, in key order
\* faulty variant: the selector is the first part of the prefix, the key space
KvListKeySpace(store, prefix) ==
  LET keys == SortKeys({k \in DOMAIN store : HasPrefix(k, <<prefix[1]>>)})
  IN [i \in 1..Len(keys) |-> [key |-> keys[i], value |-> store[keys[i]]]]

KvList(store, prefix) ==
  LET keys == SortKeys({k \in DOMAIN store : HasPrefix(k, prefix)})
  IN [i \in 1..Len(keys) |-> [key |-> keys[i], value |-> store[keys[i]]]]

EmptyStore == [k \in {} |-> Null]

\* ------------------------------------------------- KeyStack, SecureCookieMap
\* a Set-Cookie entry (or a request cookie): `sig` tells the <name>.sig cookie,
\* whose digest is the HMAC under `key` of "<name>=<value>"
CookieEntry(name, value) ==
  [header |-> "set-cookie", name |-> name, sig |-> FALSE,
   value |-> IF value = Null THEN "" ELSE value, key |-> "",
   expires |-> (value = Null \/ value = "")]

\* keyStack.sign(data): the digest under the newest key
SigEntry(name, value, keys, expires) ==
  [header |-> "set-cookie", name |-> name, sig |-> TRUE,
   value |-> value, key |-> keys[1], expires |-> expires]

\* this.delete(nameSig, { signed: false })
SigDeletion(name) ==
  [header |-> "set-cookie", name |-> name, sig |-> TRUE,
   value |-> "", key |-> "", expires |-> TRUE]

\* pushCookie: with overwrite, the entries for the same cookie name are dropped
PushCookie(values, cookie, overwrite) ==
  LET kept == IF overwrite
                THEN SelectSeq(values, LAMBDA e :
                       ~(e.header = "set-cookie" /\ e.name = cookie.name /\ e.sig = cookie.sig))
                ELSE values
  IN Append(kept, cookie)

\* SecureCookieMap.set(name, value, { overwrite }) with a key stack: signed
CookieMapSet(jar, keys, name, value, overwrite) ==
  LET cookie == CookieEntry(name, value)
      pushed == PushCookie(jar, cookie, overwrite)
  IN PushCookie(pushed, SigEntry(name, cookie.value, keys, cookie.expires), overwrite)

\* SecureCookieMap.delete(name): set(name, null)
CookieMapDelete(jar, keys, name) ==
  CookieMapSet(jar, keys, name, Null, FALSE)

\* keyStack.indexOf(data, digest): the first key the digest verifies under, 0 if none
\* faulty variant: only the newest key is tried
IndexOfNewest(keys, name, value, digest) ==
  IF digest = [digest EXCEPT !.key = keys[1], !.name = name, !.value = value]
    THEN 1 ELSE 0

IndexOf(keys, name, value, digest) ==
  LET hits == {i \in 1..Len(keys) :
                 /\ digest.key = keys[i]
                 /\ digest.name = name
                 /\ digest.value = value}
  IN IF hits = {} THEN 0 ELSE CHOOSE i \in hits : \A j \in hits : i <= j

\* SecureCookieMap.get(name) on the request's cookies: the verified value, and
\* what the lookup itself pushes to the response (a .sig deletion or re-signing)
\* faulty variant: the cookie's value is returned without checking its signature
CookieMapGetUnverified(request, keys, name) ==
  LET plain == {c \in request : c.name = name /\ ~c.sig}
  IN IF plain = {}
       THEN [value |-> Undefined, jar |-> <<>>]
       ELSE [value |-> (CHOOSE c \in plain : TRUE).value, jar |-> <<>>]

CookieMapGet(request, keys, name) ==
  LET plain == {c \in request : c.name = name /\ ~c.sig}
      digests == {c \in request : c.name = name /\ c.sig}
  IN IF plain = {} \/ digests = {}
       THEN [value |-> Undefined, jar |-> <<>>]
       ELSE LET value == (CHOOSE c \in plain : TRUE).value
                digest == CHOOSE c \in digests : TRUE
                index == IndexOf(keys, name, value, digest)
            IN IF index = 0
                 THEN [value |-> Undefined, jar |-> <<SigDeletion(name)>>]
                 ELSE [value |-> value,
                       jar |-> IF index > 1
                                 THEN <<SigEntry(name, value, keys, FALSE)>>
                                 ELSE <<>>]

\* ----------------------------------------------------------------- headers
Header(name, value) ==
  [header |-> name, name |-> "", sig |-> FALSE, value |-> value, key |-> "",
   expires |-> FALSE]

\* [cookieMapHeadersInitSymbol](): the response's set-cookie entries
CookieMapHeaders(jar) == SelectSeq(jar, LAMBDA e : e.header = "set-cookie")

\* Headers keeps a name in lower case
LowerCase(name) ==
  CASE name = "Content-Type" -> "content-type"
    [] name = "Cache-Control" -> "cache-control"
    [] name = "X-Powered-By" -> "x-powered-by"
    [] name = "Vary" -> "vary"
    [] OTHER -> name

\* the byte order of the lower-case header names
HeaderOrder == <<"cache-control", "content-type", "set-cookie", "vary", "x-powered-by">>

\* headers.append(key, value)
HeadersAppend(list, entry) == Append(list, [entry EXCEPT !.header = LowerCase(@)])

RECURSIVE AppendAll(_, _)
AppendAll(list, entries) ==
  IF entries = <<>> THEN list
  ELSE AppendAll(HeadersAppend(list, Head(entries)), Tail(entries))

RECURSIVE JoinValues(_)
JoinValues(entries) ==
  IF Len(entries) = 1 THEN entries[1].value
  ELSE entries[1].value \o ", " \o JoinValues(Tail(entries))

\* what a Headers object yields: its entries sorted by name, the values of one
\* name joined by ", ", except set-cookie, whose entries stay apart and in the
\* order they were appended
RECURSIVE HeadersEntries(_, _)
HeadersEntries(list, n) ==
  IF n > Len(HeaderOrder) THEN <<>>
  ELSE LET named == SelectSeq(list, LAMBDA e : e.header = HeaderOrder[n])
       IN (IF HeaderOrder[n] = "set-cookie" \/ named = <<>> THEN named
           ELSE <<Header(HeaderOrder[n], JoinValues(named))>>)
            \o HeadersEntries(list, n + 1)

\* mergeHeaders(...sources, cookies): every entry of every source, then the
\* cookies' set-cookie entries, appended to a new Headers
MergeHeaders(sources, jar) ==
  HeadersEntries(AppendAll(<<>>, sources \o CookieMapHeaders(jar)), 1)

\* ------------------------------------------------------------------- state
VARIABLES
  kv,          \* Deno KV: for each database path, its entries (key -> value)
  pc,          \* per session object: where its request stands
  id,          \* KvSession.#id
  keyspace,    \* KvSession.#keyspace, the array [init.keySpace]
  cookieName,  \* KvSession.#cookieName
  kvPath,      \* the path KvSession.#kv was opened with
  keyStack,    \* the keys of the KeyStack behind KvSession.#cookies
  cookies,     \* KvSession.#cookies: the response's pending header entries
  freshId,     \* refresh: the local freshId
  iter,        \* destroy / refresh: what the list iterator has yet to yield
  issued,      \* every id generateId has returned
  browser,     \* the client's cookies, and the session whose response set them
  last,        \* the most recent call: its arguments and what it returned
  pre,         \* history: id and database as a destroy / refresh call began
  written,     \* history: the most recent set or delete of the client's session
  raced,       \* history: the set calls that raced the destroy / refresh under way
  answer       \* per session object: the headers persist / send gave the handler

vars == <<kv, pc, id, keyspace, cookieName, kvPath, keyStack, cookies, freshId,
          iter, issued, hexOrder, browser, last, pre, written, raced, answer>>

sessionVars == <<id, keyspace, cookieName, kvPath, keyStack, cookies>>

NoWrites == [any |-> FALSE, key |-> <<>>, value |-> Null]
NoSession == [id |-> Undefined, current |-> TRUE]
NoCall == [id |-> Undefined, store |-> EmptyStore]
NoAnswer == [ready |-> FALSE, headers |-> <<>>]

Init ==
  /\ kv = [p \in KvPaths |-> EmptyStore]
  /\ pc = [s \in Sessions |-> "none"]
  /\ id = [s \in Sessions |-> Undefined]
  /\ keyspace = [s \in Sessions |-> <<>>]
  /\ cookieName = [s \in Sessions |-> Undefined]
  /\ kvPath = [s \in Sessions |-> Undefined]
  /\ keyStack = [s \in Sessions |-> <<>>]
  /\ cookies = [s \in Sessions |-> <<>>]
  /\ freshId = [s \in Sessions |-> Undefined]
  /\ iter = [s \in Sessions |-> <<>>]
  /\ issued = {}
  /\ hexOrder = <<>>
  /\ browser = [cookies |-> {}, by |-> NoSession]
  /\ last = [op |-> "init", s |-> 0]
  /\ pre = [s \in Sessions |-> NoCall]
  /\ written = NoWrites
  /\ raced = <<>>
  /\ answer = [s \in Sessions |-> NoAnswer]

\* ----------------------------------------------------------- the requests
RequestCookie(c) == [name |-> c.name, sig |-> c.sig, value |-> c.value, key |-> c.key]

\* what a client may present: nothing, the cookies it holds, the cookies it holds
\* with the session cookie's value swapped for another id or with the signature
\* cookie dropped, or a guessed value signed under a key the server never had
Requests ==
  LET held == browser.cookies
      swapped == {{IF ~c.sig THEN [c EXCEPT !.value = v] ELSE c : c \in held} :
                    v \in issued}
      forged == { [name |-> "sid", sig |-> FALSE, value |-> "guess", key |-> ""],
                  [name |-> "sid", sig |-> TRUE, value |-> "guess", key |-> "evil"] }
  IN {{}, held, {c \in held : ~c.sig}, forged} \cup swapped

\* KvSession.generateId(): 128 random bits, so an id never issued before; the
\* ids are named in the order they are issued
GenerateId ==
  IF Cardinality(issued) < MaxIds THEN {IdNames[Cardinality(issued) + 1]} ELSE {}

\* the random digits of a new id put it anywhere among the ids issued before
InsertAt(seq, i, e) == SubSeq(seq, 1, i) \o <<e>> \o SubSeq(seq, i + 1, Len(seq))
Issue(newId) ==
  /\ issued' = issued \cup {newId}
  /\ \E i \in 0..Len(hexOrder) : hexOrder' = InsertAt(hexOrder, i, newId)

\* ids still to be drawn by the destroy calls under way (a bound of the model:
\* a call that draws an id starts only if MaxIds leaves one for each of them)
Reserved == Cardinality({t \in Sessions : pc[t] \in {"destroy.list", "destroy.delete", "destroy.cookie"}})
CanGenerate == MaxIds - Cardinality(issued) > Reserved

\* ------------------------------------------------------------ createSession
\* the body shared by session.ts and mod.ts once the options are merged and the
\* signing keys known: cookies.get ?? generateId, cookies.set, new KvSession
NewSession(s, request, keys, merged, given, module) ==
  LET got == CookieMapGet(request, keys, merged.cookieName)
  IN /\ pc[s] = "none"
     /\ \E newId \in (IF got.value # Undefined THEN {got.value}
                      ELSE IF CanGenerate THEN GenerateId ELSE {}) :
          /\ id' = [id EXCEPT ![s] = newId]
          /\ IF got.value # Undefined THEN UNCHANGED <<issued, hexOrder>>
                                       ELSE Issue(newId)
          /\ cookies' = [cookies EXCEPT ![s] =
                           CookieMapSet(got.jar, keys, merged.cookieName, newId, FALSE)]
          /\ last' = [op |-> "createSession", s |-> s, module |-> module,
                      request |-> request, options |-> given, keys |-> keys,
                      presented |-> (request = browser.cookies /\ request # {}),
                      by |-> browser.by, issued |-> issued,
                      generated |-> (got.value = Undefined), result |-> newId]
     /\ keyspace' = [keyspace EXCEPT ![s] = <<merged.keySpace>>]
     /\ cookieName' = [cookieName EXCEPT ![s] = merged.cookieName]
     /\ kvPath' = [kvPath EXCEPT ![s] = merged.kvPath]
     /\ keyStack' = [keyStack EXCEPT ![s] = keys]
     /\ pc' = [pc EXCEPT ![s] = "idle"]
     /\ written' = IF request = browser.cookies /\ got.value # Undefined
                     THEN written ELSE NoWrites
     /\ pre' = [pre EXCEPT ![s] = NoCall]
     /\ UNCHANGED <<kv, freshId, iter, browser, raced, answer>>

\* session.ts: createSession(request, signatureKeys, options?)
CreateSessionFrom(s, requests, keyLists, optionInputs) ==
  \E request \in requests, signatureKeys \in keyLists, options \in optionInputs :
    NewSession(s, request, signatureKeys, ObjectAssign(options, DEFAULT_OPTIONS),
               options, "session.ts")

CreateSession(s) == CreateSessionFrom(s, Requests, KeyLists, OptionInputs)

\* mod.ts: createSession(request, options = {})
CreateSessionMod(s) ==
  \E request \in Requests, options \in OptionInputsMod :
    LET merged == ObjectAssign(options, DEFAULT_OPTIONS_MOD)
    IN NewSession(s, request, merged.signatureKeys, merged, options, "mod.ts")

\* one deployment: every request is served by createSession(request, ["k1"])
CreateSessionFixed(s) ==
  CreateSessionFrom(s, {{}, browser.cookies}, {<<"k1">>}, {NoOptions})

\* ------------------------------------------------------- get / set / delete
\* the ids no handler has seen yet: the one a refresh() under way will return,
\* and the one a destroy() under way has just drawn
Unrevealed ==
  {freshId[t] : t \in {t \in Sessions : pc[t] \in {"refresh.list", "refresh.set",
                                                    "refresh.delete", "refresh.update"}}}
    \cup {id[t] : t \in {t \in Sessions : pc[t] = "destroy.update"}}

\* the key argument: one key-part, or an array of key-parts; a part is a plain
\* name or a session id the handler has seen (in a cookie, or returned by
\* refresh())
KeyParts(s) == PlainParts \cup (issued \ Unrevealed)
SeqsUpTo(S, n) == UNION {[1..m -> S] : m \in 0..n}
KeyArgs(s) ==
  {[isArray |-> FALSE, part |-> p, parts |-> <<>>] : p \in KeyParts(s)}
    \cup {[isArray |-> TRUE, part |-> "", parts |-> q] :
             q \in SeqsUpTo(KeyParts(s), MaxSubLen)}

\* Array.isArray(key) ? key : [key]
Normalize(key) == IF key.isArray THEN key.parts ELSE <<key.part>>

\* faulty variant: the key space alone, the id forgotten
KeyWithoutId(s) == keyspace[s]

\* get #key(): this.#keyspace.concat(this.#id)
Key(s) == keyspace[s] \o <<id[s]>>

\* [...this.#key, ...k]
FullKey(s, key) == Key(s) \o Normalize(key)

Store(s) == kv[kvPath[s]]

\* get(key): what this.#kv.get([...this.#key, ...k]) resolves to
GetResult(s, key) == KvGet(Store(s), FullKey(s, key))

\* get reads: it leaves the store, the session and the cookies as they are
Get(s) ==
  /\ pc[s] = "idle"
  /\ \E key \in KeyArgs(s) : GetResult(s, key) \in [found : BOOLEAN, value : Values \cup {Null}]
  /\ UNCHANGED vars

\* the calls of other session objects on the same namespace that have begun and
\* not yet returned
InCall == {"destroy.list", "destroy.delete", "destroy.cookie", "destroy.update",
           "refresh.list", "refresh.set", "refresh.delete", "refresh.update"}
Racing(s) ==
  {t \in Sessions \ {s} : /\ pc[t] \in InCall
                           /\ keyspace[t] \o <<pre[t].id>> = Key(s)
                           /\ kvPath[t] = kvPath[s]}

\* what is remembered of a set that lands while call t is under way: the store
\* key and value written, the step the call had reached, and what its iterator
\* had read and not yet processed
Raced(t, addr, value) ==
  [addr |-> addr, value |-> value, at |-> pc[t], todo |-> iter[t]]

SetFrom(s, keys) ==
  /\ pc[s] = "idle"
  /\ \E key \in keys, value \in Values :
       /\ \/ FullKey(s, key) \in DOMAIN Store(s)
          \/ Cardinality(DOMAIN Store(s)) < MaxEntries
       /\ kv' = [kv EXCEPT ![kvPath[s]] = KvSet(@, FullKey(s, key), value)]
       /\ last' = [op |-> "set", s |-> s, key |-> key, addr |-> FullKey(s, key),
                   value |-> value]
       /\ written' = [any |-> TRUE, key |-> Normalize(key), value |-> value]
       /\ Racing(s) # {} => Len(raced) < MaxRaced
       /\ raced' = IF Racing(s) = {} THEN raced
                   ELSE Append(raced, Raced(CHOOSE t \in Racing(s) : TRUE,
                                            FullKey(s, key), value))
  /\ UNCHANGED <<pc, sessionVars, freshId, iter, issued, hexOrder, browser, pre, answer>>

Set(s) == SetFrom(s, KeyArgs(s))

\* a handler that keeps one value under "name" and one under the empty key
NameKeys ==
  { [isArray |-> FALSE, part |-> "name", parts |-> <<>>],
    [isArray |-> TRUE, part |-> "", parts |-> <<>>] }

SetName(s) == SetFrom(s, NameKeys)

Delete(s) ==
  /\ pc[s] = "idle"
  /\ \E key \in KeyArgs(s) :
       /\ kv' = [kv EXCEPT ![kvPath[s]] = KvDelete(@, FullKey(s, key))]
       /\ last' = [op |-> "delete", s |-> s, key |-> key, addr |-> FullKey(s, key)]
       /\ written' = [any |-> TRUE, key |-> Normalize(key), value |-> Null]
  /\ UNCHANGED <<pc, sessionVars, freshId, iter, issued, hexOrder, browser, pre, raced,
                 answer>>

\* list(): every entry of kv.list({ prefix: this.#key }), collected
ListResult(s) == KvList(Store(s), Key(s))

List(s) ==
  /\ pc[s] = "idle"
  /\ Len(ListResult(s)) >= 0
  /\ UNCHANGED vars

\* ------------------------------------------------------------ persist / send
ContentType == Header("Content-Type", "application/json")
CacheControl == Header("Cache-Control", "no-cache")
PoweredBy == Header("X-Powered-By", "deno")
Vary(value) == Header("Vary", value)

\* header sources a handler passes: none, its own headers (one, the two of the
\* documented example, one that sorts after set-cookie, one name twice), or
\* headers that already went through persist() (they carry the session's
\* set-cookie entries)
HeaderSources(s) ==
  { <<>>, <<ContentType>>, <<ContentType, CacheControl>>, <<PoweredBy>>,
    <<Vary("a"), Vary("b")>>,
    MergeHeaders(<<ContentType>>, cookies[s]) }

\* a response body: a string, or bytes (a Uint8Array)
StringBody == [string |-> TRUE, content |-> "Hello"]
ByteBody == [string |-> FALSE, content |-> "Hello"]

\* the content type the Response constructor gives a string body
TextPlain == Header("content-type", "text/plain;charset=UTF-8")

\* new Response(body, { status, statusText, headers }): the headers given become
\* a Headers object, and a string body adds its content type when they name
\* none
Response(body, status, statusText, headers) ==
  LET given == HeadersEntries(AppendAll(<<>>, headers), 1)
      named == \E i \in 1..Len(given) : given[i].header = "content-type"
  IN [body |-> body, status |-> status, statusText |-> statusText,
      headers |-> IF body.string /\ ~named
                    THEN HeadersEntries(AppendAll(given, <<TextPlain>>), 1)
                    ELSE given]

\* new Response(body): status 200, an empty status text, no headers given
PlainResponse(body) == Response(body, 200, "", <<>>)

\* the init a handler builds its response from, next to the body: nothing, a
\* status text, or headers of its own
ResponseInits(s) ==
  {[statusText |-> "", headers |-> h] : h \in HeaderSources(s)}
    \cup {[statusText |-> "OK", headers |-> <<>>]}

\* the responses a handler passes to send, and for each the headers it gave
Responses(s) ==
  {[given |-> i.headers, response |-> Response(StringBody, 200, i.statusText, i.headers)] :
     i \in ResponseInits(s)}
    \cup {[given |-> <<>>, response |-> PlainResponse(ByteBody)]}

\* the client stores each Set-Cookie of a response in turn; an expired one
\* removes the cookie of that name
RECURSIVE BrowserApply(_, _)
BrowserApply(held, headers) ==
  IF headers = <<>> THEN held
  ELSE LET h == Head(headers)
           others == {c \in held : ~(c.name = h.name /\ c.sig = h.sig)}
       IN BrowserApply(
            IF h.header # "set-cookie" THEN held
            ELSE IF h.expires THEN others
            ELSE others \cup {RequestCookie(h)},
            Tail(headers))

\* the set-cookie entries of a header list, in order
SetCookies(headers) == SelectSeq(headers, LAMBDA e : e.header = "set-cookie")

\* the request is over: its KvSession object is gone
Gone(s) ==
  /\ pc' = [pc EXCEPT ![s] = "none"]
  /\ id' = [id EXCEPT ![s] = Undefined]
  /\ keyspace' = [keyspace EXCEPT ![s] = <<>>]
  /\ cookieName' = [cookieName EXCEPT ![s] = Undefined]
  /\ kvPath' = [kvPath EXCEPT ![s] = Undefined]
  /\ keyStack' = [keyStack EXCEPT ![s] = <<>>]
  /\ cookies' = [cookies EXCEPT ![s] = <<>>]
  /\ answer' = [answer EXCEPT ![s] = NoAnswer]
  /\ UNCHANGED written

\* the client takes the response's cookies; `by` remembers the id of the session
\* that answered and whether the headers of this and of every earlier response
\* carried the cookies of the answering session as they were at the answer
Answer(s, headers) ==
  browser' = [cookies |-> BrowserApply(browser.cookies, headers),
              by |-> [id |-> id[s],
                      current |-> /\ browser.by.current
                                  /\ SetCookies(headers) = CookieMapHeaders(cookies[s])]]

\* persist(...sources): mergeHeaders(...sources, this.#cookies), returned to the
\* handler; the session is as it was
PersistFrom(s, sourceSets) ==
  /\ pc[s] # "none"
  /\ \E sources \in sourceSets :
       /\ last' = [op |-> "persist", s |-> s, sources |-> sources, id |-> id[s],
                   cookieName |-> cookieName[s], idle |-> pc[s] = "idle",
                   result |-> MergeHeaders(sources, cookies[s])]
       /\ answer' = [answer EXCEPT ![s] =
                       [ready |-> TRUE, headers |-> MergeHeaders(sources, cookies[s])]]
  /\ UNCHANGED <<kv, pc, sessionVars, freshId, iter, issued, hexOrder, browser, pre,
                 written, raced>>

Persist(s) == PersistFrom(s, HeaderSources(s))

\* session.persist(), with no other headers, by a handler that has awaited its
\* destroy() and refresh() calls
PersistPlain(s) == pc[s] = "idle" /\ PersistFrom(s, {<<>>})

\* send(response): a new Response with the body, status and status text of the
\* given one and the headers mergeHeaders(response, this.#cookies); the body is
\* handed over as the stream it has become, so the constructor adds no content
\* type of its own
SendFrom(s, responses) ==
  /\ pc[s] # "none"
  /\ \E r \in responses :
       /\ last' = [op |-> "send", s |-> s, sources |-> r.given,
                   response |-> r.response, id |-> id[s],
                   cookieName |-> cookieName[s], idle |-> pc[s] = "idle",
                   result |-> [r.response EXCEPT
                                 !.headers = MergeHeaders(r.response.headers, cookies[s])]]
       /\ answer' = [answer EXCEPT ![s] =
                       [ready |-> TRUE,
                        headers |-> MergeHeaders(r.response.headers, cookies[s])]]
  /\ UNCHANGED <<kv, pc, sessionVars, freshId, iter, issued, hexOrder, browser, pre,
                 written, raced>>

Send(s) == SendFrom(s, Responses(s))

\* session.send(new Response("Hello")), a response with no headers given, by a
\* handler that has awaited its destroy() and refresh() calls
SendPlain(s) ==
  /\ pc[s] = "idle"
  /\ SendFrom(s, {[given |-> <<>>, response |-> PlainResponse(StringBody)]})

\* the handler answers with the headers persist / send gave it (it may have
\* gone on using the session since), when the calls it made have returned; the
\* client takes the cookies, and the request is over
Respond(s) ==
  /\ pc[s] = "idle"
  /\ answer[s].ready
  /\ Answer(s, answer[s].headers)
  /\ Gone(s)
  /\ last' = [op |-> "respond", s |-> s, headers |-> answer[s].headers]
  /\ UNCHANGED <<kv, freshId, iter, issued, hexOrder, pre, raced>>

\* a handler that answers with what persist / send has just returned
Reply(s) ==
  /\ last.op \in {"persist", "send"}
  /\ last.s = s
  /\ Respond(s)

\* ------------------------------------------------------------------ #updateId
\* this.#id = value ?? KvSession.generateId(): done as soon as #updateId is
\* called, before cookies.set is awaited
UpdateIdAssign(s, value) == id' = [id EXCEPT ![s] = value]

\* await this.#cookies.set(this.#cookieName, this.#id, { overwrite: true }): the
\* pending cookie follows when the signature is made
\* faulty variant: the cookie is left as it was
UpdateIdCookieSkipped(s) == cookies' = cookies

\* faulty variant: the cookie is set without overwrite
UpdateIdCookieAppending(s) ==
  cookies' = [cookies EXCEPT ![s] =
                CookieMapSet(@, keyStack[s], cookieName[s], id[s], FALSE)]

UpdateIdCookie(s) ==
  cookies' = [cookies EXCEPT ![s] =
                CookieMapSet(@, keyStack[s], cookieName[s], id[s], TRUE)]

\* ------------------------------------------------------------------ destroy
\* destroy() is called: const iterator = this.#kv.list({ prefix: this.#key }),
\* and the loop awaits the iterator's first pull
Destroy(s) ==
  /\ pc[s] = "idle"
  /\ CanGenerate
  /\ pc' = [pc EXCEPT ![s] = "destroy.list"]
  /\ pre' = [pre EXCEPT ![s] = [id |-> id[s], store |-> Store(s)]]
  /\ last' = [op |-> "destroy.call", s |-> s]
  /\ raced' = <<>>
  /\ UNCHANGED <<kv, sessionVars, freshId, iter, issued, hexOrder, browser, written,
                 answer>>

\* the iterator's first pull reads the entries under the prefix
DestroyList(s) ==
  /\ pc[s] = "destroy.list"
  /\ iter' = [iter EXCEPT ![s] = KvList(Store(s), Key(s))]
  /\ pc' = [pc EXCEPT ![s] =
              IF KvList(Store(s), Key(s)) = <<>> THEN "destroy.cookie" ELSE "destroy.delete"]
  /\ last' = [op |-> "destroy.list", s |-> s]
  /\ UNCHANGED <<kv, sessionVars, freshId, issued, hexOrder, browser, pre, written,
                 raced, answer>>

\* for await (const res of iterator) await this.#kv.delete(res.key)
\* faulty variant: the loop runs over the entries without deleting them
DestroyDeleteSkipped(s) ==
  /\ pc[s] = "destroy.delete"
  /\ iter' = [iter EXCEPT ![s] = Tail(@)]
  /\ pc' = [pc EXCEPT ![s] =
              IF Tail(iter[s]) = <<>> THEN "destroy.cookie" ELSE "destroy.delete"]
  /\ last' = [op |-> "destroy.delete", s |-> s, addr |-> Head(iter[s]).key]
  /\ UNCHANGED <<kv, sessionVars, freshId, issued, hexOrder, browser, pre, written,
                 raced, answer>>

DestroyDelete(s) ==
  /\ pc[s] = "destroy.delete"
  /\ kv' = [kv EXCEPT ![kvPath[s]] = KvDelete(@, Head(iter[s]).key)]
  /\ iter' = [iter EXCEPT ![s] = Tail(@)]
  /\ pc' = [pc EXCEPT ![s] =
              IF Tail(iter[s]) = <<>> THEN "destroy.cookie" ELSE "destroy.delete"]
  /\ last' = [op |-> "destroy.delete", s |-> s, addr |-> Head(iter[s]).key]
  /\ UNCHANGED <<sessionVars, freshId, issued, hexOrder, browser, pre, written, raced,
                 answer>>

\* await this.#cookies.delete(this.#cookieName) completes: the deletion is
\* pending; then #updateId() is entered, which assigns a new id at once and
\* awaits cookies.set
DestroyCookie(s) ==
  /\ pc[s] = "destroy.cookie"
  /\ cookies' = [cookies EXCEPT ![s] = CookieMapDelete(@, keyStack[s], cookieName[s])]
  /\ \E newId \in GenerateId :
       /\ UpdateIdAssign(s, newId)
       /\ Issue(newId)
  /\ pc' = [pc EXCEPT ![s] = "destroy.update"]
  /\ last' = [op |-> "destroy.cookie", s |-> s]
  /\ UNCHANGED <<kv, keyspace, cookieName, kvPath, keyStack, freshId, iter, browser, pre,
                 written, raced, answer>>

\* the cookies.set of #updateId completes, and destroy() returns
DestroyUpdate(s) ==
  /\ pc[s] = "destroy.update"
  /\ UpdateIdCookie(s)
  /\ pc' = [pc EXCEPT ![s] = "idle"]
  /\ written' = NoWrites
  /\ pre' = [pre EXCEPT ![s] = NoCall]
  /\ last' = [op |-> "destroy", s |-> s, old |-> pre[s].id, before |-> pre[s].store,
              raced |-> raced]
  /\ raced' = <<>>
  /\ UNCHANGED <<kv, id, keyspace, cookieName, kvPath, keyStack, freshId, iter, issued,
                 hexOrder, browser, answer>>

\* ------------------------------------------------------------------ refresh
\* refresh() is called: const freshId = generateId(); const iterator = list(...),
\* and the loop awaits the iterator's first pull
Refresh(s) ==
  /\ pc[s] = "idle"
  /\ CanGenerate
  /\ \E newId \in GenerateId :
       /\ freshId' = [freshId EXCEPT ![s] = newId]
       /\ Issue(newId)
  /\ pc' = [pc EXCEPT ![s] = "refresh.list"]
  /\ pre' = [pre EXCEPT ![s] = [id |-> id[s], store |-> Store(s)]]
  /\ last' = [op |-> "refresh.call", s |-> s]
  /\ raced' = <<>>
  /\ UNCHANGED <<kv, sessionVars, iter, browser, written, answer>>

\* the loop goes on with what the iterator has left; when nothing is left,
\* #updateId(freshId) is entered, which assigns the id at once and awaits
\* cookies.set
RefreshLoop(s, rest) ==
  /\ iter' = [iter EXCEPT ![s] = rest]
  /\ pc' = [pc EXCEPT ![s] = IF rest = <<>> THEN "refresh.update" ELSE "refresh.set"]
  /\ UpdateIdAssign(s, IF rest = <<>> THEN freshId[s] ELSE id[s])

\* the iterator's first pull reads the entries under the prefix
RefreshList(s) ==
  /\ pc[s] = "refresh.list"
  /\ RefreshLoop(s, KvList(Store(s), Key(s)))
  /\ last' = [op |-> "refresh.list", s |-> s]
  /\ UNCHANGED <<kv, keyspace, cookieName, kvPath, keyStack, cookies, freshId, issued,
                 hexOrder, browser, pre, written, raced, answer>>

\* res.key.map((k) => k === this.#id ? freshId : k)
\* faulty variant: the key is copied as it is
FreshKeyUnchanged(key, oldId, newId) == key

\* faulty variant: only the part at index 1, the id's own place, is replaced
FreshKeyAtIndexOne(key, oldId, newId) ==
  [i \in 1..Len(key) |-> IF i = 2 /\ key[i] = oldId THEN newId ELSE key[i]]

FreshKey(key, oldId, newId) ==
  [i \in 1..Len(key) |-> IF key[i] = oldId THEN newId ELSE key[i]]

\* await this.#kv.set(freshKey, res.value)
\* faulty variant: the original key is deleted at the step that should write
RefreshSetDeletingFirst(s) ==
  /\ pc[s] = "refresh.set"
  /\ kv' = [kv EXCEPT ![kvPath[s]] = KvDelete(@, Head(iter[s]).key)]
  /\ pc' = [pc EXCEPT ![s] = "refresh.delete"]
  /\ last' = [op |-> "refresh.set", s |-> s,
              addr |-> FreshKey(Head(iter[s]).key, id[s], freshId[s])]
  /\ UNCHANGED <<sessionVars, freshId, iter, issued, hexOrder, browser, pre, written,
                 raced, answer>>

RefreshSet(s) ==
  /\ pc[s] = "refresh.set"
  /\ kv' = [kv EXCEPT ![kvPath[s]] =
              KvSet(@, FreshKey(Head(iter[s]).key, id[s], freshId[s]), Head(iter[s]).value)]
  /\ pc' = [pc EXCEPT ![s] = "refresh.delete"]
  /\ last' = [op |-> "refresh.set", s |-> s,
              addr |-> FreshKey(Head(iter[s]).key, id[s], freshId[s])]
  /\ UNCHANGED <<sessionVars, freshId, iter, issued, hexOrder, browser, pre, written,
                 raced, answer>>

\* await this.#kv.delete(res.key)
\* faulty variant: the original key is left where it is
RefreshDeleteSkipped(s) ==
  /\ pc[s] = "refresh.delete"
  /\ RefreshLoop(s, Tail(iter[s]))
  /\ last' = [op |-> "refresh.delete", s |-> s, addr |-> Head(iter[s]).key]
  /\ UNCHANGED <<kv, keyspace, cookieName, kvPath, keyStack, cookies, freshId, issued,
                 hexOrder, browser, pre, written, raced, answer>>

\* faulty variant: the iterator is not advanced and yields the same entry again
RefreshDeleteStuck(s) ==
  /\ pc[s] = "refresh.delete"
  /\ kv' = [kv EXCEPT ![kvPath[s]] = KvDelete(@, Head(iter[s]).key)]
  /\ pc' = [pc EXCEPT ![s] = "refresh.set"]
  /\ last' = [op |-> "refresh.delete", s |-> s, addr |-> Head(iter[s]).key]
  /\ UNCHANGED <<sessionVars, freshId, iter, issued, hexOrder, browser, pre, written,
                 raced, answer>>

RefreshDelete(s) ==
  /\ pc[s] = "refresh.delete"
  /\ kv' = [kv EXCEPT ![kvPath[s]] = KvDelete(@, Head(iter[s]).key)]
  /\ RefreshLoop(s, Tail(iter[s]))
  /\ last' = [op |-> "refresh.delete", s |-> s, addr |-> Head(iter[s]).key]
  /\ UNCHANGED <<keyspace, cookieName, kvPath, keyStack, cookies, freshId, issued,
                 hexOrder, browser, pre, written, raced, answer>>

\* the cookies.set of #updateId completes, and refresh() returns freshId
RefreshUpdate(s) ==
  /\ pc[s] = "refresh.update"
  /\ UpdateIdCookie(s)
  /\ pc' = [pc EXCEPT ![s] = "idle"]
  /\ pre' = [pre EXCEPT ![s] = NoCall]
  /\ last' = [op |-> "refresh", s |-> s, result |-> freshId[s],
              old |-> pre[s].id, before |-> pre[s].store, raced |-> raced]
  /\ raced' = <<>>
  /\ UNCHANGED <<kv, id, keyspace, cookieName, kvPath, keyStack, freshId, iter, issued,
                 hexOrder, browser, written, answer>>

\* ------------------------------------------------------------ store failures
\* a rejected store call rejects the destroy() / refresh() that awaits it: the
\* call ends there, with nothing caught and nothing undone
\* faulty variant: the rejection is caught and the store put back as it was
RejectedRollingBack(s, op) ==
  /\ pc' = [pc EXCEPT ![s] = "idle"]
  /\ iter' = [iter EXCEPT ![s] = <<>>]
  /\ pre' = [pre EXCEPT ![s] = NoCall]
  /\ kv' = [kv EXCEPT ![kvPath[s]] = pre[s].store]
  /\ last' = [op |-> op, s |-> s, at |-> pc[s], old |-> pre[s].id,
              before |-> pre[s].store, todo |-> iter[s], fresh |-> freshId[s],
              raced |-> raced]
  /\ raced' = <<>>
  /\ UNCHANGED <<sessionVars, freshId, issued, hexOrder, browser, written, answer>>

Rejected(s, op) ==
  /\ pc' = [pc EXCEPT ![s] = "idle"]
  /\ iter' = [iter EXCEPT ![s] = <<>>]
  /\ pre' = [pre EXCEPT ![s] = NoCall]
  /\ last' = [op |-> op, s |-> s, at |-> pc[s], old |-> pre[s].id,
              before |-> pre[s].store, todo |-> iter[s], fresh |-> freshId[s],
              raced |-> raced]
  /\ raced' = <<>>
  /\ UNCHANGED <<kv, sessionVars, freshId, issued, hexOrder, browser, written, answer>>

\* destroy: the iterator's pull or this.#kv.delete(res.key) rejects
DestroyFail(s) ==
  /\ pc[s] \in {"destroy.list", "destroy.delete"}
  /\ Rejected(s, "destroy.failed")

\* refresh: the iterator's pull, this.#kv.set or this.#kv.delete rejects
RefreshFail(s) ==
  /\ pc[s] \in {"refresh.list", "refresh.set", "refresh.delete"}
  /\ Rejected(s, "refresh.failed")

\* ------------------------------------------------------------ specifications
Step(s) ==
  \/ CreateSessionFixed(s)
  \/ Get(s)
  \/ Set(s)
  \/ Delete(s)
  \/ List(s)
  \/ PersistPlain(s)
  \/ SendPlain(s)
  \/ Destroy(s)
  \/ DestroyList(s)
  \/ DestroyDelete(s)
  \/ DestroyCookie(s)
  \/ DestroyUpdate(s)
  \/ Refresh(s)
  \/ RefreshList(s)
  \/ RefreshSet(s)
  \/ RefreshDelete(s)
  \/ RefreshUpdate(s)

\* one handler at work on one session: every call of KvSession, with sub-keys
\* made of names and of session ids
Next == Step(1)

Spec == Init /\ [][Next]_vars

\* the same handler without persist and send, on a store whose calls may fail
\* inside destroy and refresh
StepCalls(s) ==
  \/ CreateSessionFixed(s)
  \/ Get(s)
  \/ Set(s)
  \/ Delete(s)
  \/ List(s)
  \/ Destroy(s)
  \/ DestroyList(s)
  \/ DestroyDelete(s)
  \/ DestroyCookie(s)
  \/ DestroyUpdate(s)
  \/ DestroyFail(s)
  \/ Refresh(s)
  \/ RefreshList(s)
  \/ RefreshSet(s)
  \/ RefreshDelete(s)
  \/ RefreshUpdate(s)
  \/ RefreshFail(s)

NextCalls == StepCalls(1)

SpecCalls == Init /\ [][NextCalls]_vars

\* requests served one after the other by handlers that create the session
\* with every option and key list, pass headers of their own to persist and
\* send, answer at any time after, and leave the store alone
StepCookies(s) ==
  \/ CreateSession(s)
  \/ CreateSessionMod(s)
  \/ Persist(s)
  \/ Send(s)
  \/ Respond(s)
  \/ Destroy(s)
  \/ DestroyList(s)
  \/ DestroyCookie(s)
  \/ DestroyUpdate(s)
  \/ Refresh(s)
  \/ RefreshList(s)
  \/ RefreshUpdate(s)

NextCookies == StepCookies(1)

SpecCookies == Init /\ [][NextCookies]_vars

\* requests of one client served one after the other: the handler keeps a value
\* under "name" or under the empty key, may refresh the session, and answers
\* at any time after persist()
StepRequests(s) ==
  \/ CreateSessionFixed(s)
  \/ Get(s)
  \/ SetName(s)
  \/ PersistPlain(s)
  \/ Respond(s)
  \/ Refresh(s)
  \/ RefreshList(s)
  \/ RefreshSet(s)
  \/ RefreshDelete(s)
  \/ RefreshUpdate(s)

NextRequests == StepRequests(1)

SpecRequests == Init /\ [][NextRequests]_vars

\* two requests of different clients are served concurrently by one deployment:
\* their get, set, delete and list calls interleave
StepConc(s) ==
  \/ CreateSessionFixed(s)
  \/ Get(s)
  \/ Set(s)
  \/ Delete(s)
  \/ List(s)

NextConc == \E s \in Sessions : StepConc(s)

SpecConc == Init /\ [][NextConc]_vars

\* the ids happen to sort in the order they were issued
InIssueOrder == hexOrder = [i \in 1..Len(hexOrder) |-> IdNames[i]]

\* two requests of one client, or of two clients, served concurrently: the
\* first destroys or refreshes its session while the second sets values. No
\* id is used as a sub-key here, so one order of the ids stands for all.
RaceOwner(s) ==
  \/ CreateSessionFixed(s)
  \/ PersistPlain(s)
  \/ Reply(s)
  \/ Destroy(s)
  \/ DestroyList(s)
  \/ DestroyDelete(s)
  \/ DestroyCookie(s)
  \/ DestroyUpdate(s)
  \/ Refresh(s)
  \/ RefreshList(s)
  \/ RefreshSet(s)
  \/ RefreshDelete(s)
  \/ RefreshUpdate(s)

RaceOther(s) ==
  \/ CreateSessionFixed(s)
  \/ SetName(s)

NextRace == (RaceOwner(1) \/ RaceOther(2)) /\ InIssueOrder'

SpecRace == Init /\ [][NextRace]_vars

\* the steps inside a destroy() or refresh() call: each is a store call or a
\* cookie signature that returns, with its result or with a rejection
CallStep(s) ==
  \/ DestroyList(s)
  \/ DestroyDelete(s)
  \/ DestroyCookie(s)
  \/ DestroyUpdate(s)
  \/ DestroyFail(s)
  \/ RefreshList(s)
  \/ RefreshSet(s)
  \/ RefreshDelete(s)
  \/ RefreshUpdate(s)
  \/ RefreshFail(s)

\* the race of SpecRace with store calls that may fail and that always return
LiveOwner(s) ==
  \/ CreateSessionFixed(s)
  \/ PersistPlain(s)
  \/ Reply(s)
  \/ Destroy(s)
  \/ Refresh(s)
  \/ CallStep(s)

NextLive == (LiveOwner(1) \/ RaceOther(2)) /\ InIssueOrder'

SpecLive == Init /\ [][NextLive]_vars /\ WF_vars(CallStep(1) /\ InIssueOrder')

\* ============================================================== properties
\* [keySpace, id] of a session, written out
Namespace(s) == <<keyspace[s][1], id[s]>>

\* the key is the prefix itself or lies under it
Within(key, prefix) == key = prefix \/ HasPrefix(key, prefix)

\* a sub-key given as an array of key-parts
AsArray(parts) == [isArray |-> TRUE, part |-> "", parts |-> parts]

\* the part of a store key after [keySpace, id]
SubKey(key) == SubSeq(key, 3, Len(key))

\* the store keys whose entry a step creates, changes or removes
Touched ==
  {k \in UNION {(DOMAIN kv[p]) \cup (DOMAIN kv'[p]) : p \in KvPaths} :
     \E p \in KvPaths : KvGet(kv[p], k) # KvGet(kv'[p], k)}

Strangers(s) == {t \in Sessions \ {s} : pc[t] = "idle" /\ id[t] # id[s]}

\* C1: get(k), set(k, v) and delete(k) of a session address exactly the store key
\* [keySpace, id] ++ normalize(k), so a session neither reads nor changes an
\* entry in the namespace of a session with another id.
C1_NamespaceIsolation ==
  [][\A s \in Sessions :
       /\ pc[s] = "idle" =>
            \A key \in KeyArgs(s) :
              /\ GetResult(s, key) = KvGet(kv[kvPath[s]], Namespace(s) \o Normalize(key))
              /\ \A t \in Strangers(s) :
                   ~Within(FullKey(s, key), Namespace(t))
       /\ (last'.s = s /\ last'.op \in {"set", "delete"}) =>
            /\ last'.addr = Namespace(s) \o Normalize(last'.key)
            /\ Touched \subseteq {Namespace(s) \o Normalize(last'.key)}
            /\ \A t \in Strangers(s) : \A k \in Touched : ~Within(k, Namespace(t))
    ]_vars

\* both sessions are served, with different ids, each has an entry, and one of
\* them has just set a value under a sub-key that is the other's id
C1_Witness ==
  /\ \A s \in Sessions : pc[s] = "idle"
  /\ id[1] # id[2]
  /\ \A s \in Sessions : \E k \in DOMAIN kv[kvPath[s]] : HasPrefix(k, Namespace(s))
  /\ last.op = "set"
  /\ \E t \in Sessions \ {last.s} : Normalize(last.key) = <<id[t]>>

\* C10: set(k, v) followed by get(k) returns v, and after delete(k) get(k)
\* returns not-found as a value.
C10_RoundTrip ==
  /\ last.op = "set" =>
       GetResult(last.s, last.key) = [found |-> TRUE, value |-> last.value]
  /\ last.op = "delete" =>
       GetResult(last.s, last.key) = [found |-> FALSE, value |-> Null]
  /\ last.op \in {"set", "delete"} =>
       GetResult(last.s, AsArray(Normalize(last.key))) = GetResult(last.s, last.key)

\* a value was set over another one, next to a second entry
C10_Witness ==
  /\ last.op = "set"
  /\ last.value = "eve"
  /\ written = [any |-> TRUE, key |-> Normalize(last.key), value |-> "eve"]
  /\ Cardinality(DOMAIN kv[kvPath[last.s]]) = 2
  /\ GetResult(last.s, last.key).found

\* the entries a list() of the session returned before the call that just ended
ListedBefore == KvList(last.before, <<keyspace[last.s][1], last.old>>)

\* C2: after refresh() every entry that list() returned before the call is
\* stored under [keySpace, newId] with the identical value, its key agreeing
\* with the old key in every part that is not the old id, and a listing of
\* [keySpace, oldId] is empty.
C2_RefreshMovesListedEntries ==
  last.op = "refresh" =>
    LET s == last.s
        fresh == <<keyspace[s][1], last.result>>
    IN /\ id[s] = last.result
       /\ last.result # last.old
       /\ \A i \in 1..Len(ListedBefore) :
            \E k \in DOMAIN Store(s) :
              /\ HasPrefix(k, fresh)
              /\ Len(k) = Len(ListedBefore[i].key)
              /\ \A j \in 3..Len(k) :
                   ListedBefore[i].key[j] # last.old => k[j] = ListedBefore[i].key[j]
              /\ Store(s)[k] = ListedBefore[i].value
       /\ KvList(Store(s), <<keyspace[s][1], last.old>>) = <<>>

\* a refresh of a session that listed two entries has ended
C2_Witness ==
  /\ last.op = "refresh"
  /\ Len(ListedBefore) = 2
  /\ ListedBefore[1].value # ListedBefore[2].value
  /\ Len(KvList(Store(last.s), Namespace(last.s))) = 2

\* C3: after destroy() a listing of [keySpace, oldId] is empty, the session's id
\* differs from oldId, and get(k) through the new id returns not-found for every
\* sub-key that held a value before the call.
C3_DestroyLeavesNothing ==
  last.op = "destroy" =>
    LET s == last.s
        old == <<keyspace[s][1], last.old>>
    IN /\ KvList(Store(s), old) = <<>>
       /\ id[s] # last.old
       /\ id[s] \in Ids
       /\ \A k \in DOMAIN last.before :
            Within(k, old) => ~GetResult(s, AsArray(SubKey(k))).found

\* a destroy of a session that held two entries has ended
C3_Witness ==
  /\ last.op = "destroy"
  /\ Len(ListedBefore) = 2
  /\ pc[last.s] = "idle"

\* C4: for every sub-key k under which get(k) returned a value v just before
\* refresh(), get(k) through the same session after refresh() returns v.
C4_RefreshPreservesView ==
  last.op = "refresh" =>
    \A k \in DOMAIN last.before :
      Within(k, <<keyspace[last.s][1], last.old>>) =>
        GetResult(last.s, AsArray(SubKey(k))) =
          [found |-> TRUE, value |-> last.before[k]]

\* the cookie named name in the request carries a value signed under one of keys
Verified(request, keys, name) ==
  {c.value : c \in {c \in request :
     /\ c.name = name
     /\ ~c.sig
     /\ \E d \in request : /\ d.name = name
                           /\ d.sig
                           /\ d.value = c.value
                           /\ d.key \in Range(keys)}}

\* C5: createSession on a request whose session cookie is validly signed under
\* one of the signing keys in use returns a session with the cookie's value as
\* its id and generates no id.
C5_ValidCookieAdopted ==
  last.op = "createSession" =>
    \A v \in Verified(last.request, last.keys, cookieName[last.s]) :
      /\ id[last.s] = v
      /\ last.result = v
      /\ ~last.generated
      /\ issued = last.issued

\* a session was created from a cookie signed under a key that is no longer the
\* newest one
C5_Witness ==
  /\ last.op = "createSession"
  /\ Verified(last.request, last.keys, cookieName[last.s]) # {}
  /\ Len(last.keys) = 2
  /\ \E d \in last.request : d.sig /\ d.key = last.keys[2]

\* C6: createSession on a request whose session cookie is missing or fails
\* verification generates an id never issued before, never adopts the value
\* presented, and sets the session cookie to that id on the response.
C6_InvalidCookieFreshId ==
  (/\ last.op = "createSession"
   /\ Verified(last.request, last.keys, cookieName[last.s]) = {}) =>
      LET s == last.s
      IN /\ last.generated
         /\ id[s] = last.result
         /\ id[s] \in Ids \ last.issued
         /\ \A c \in last.request : ~c.sig => id[s] # c.value
         /\ \E i \in 1..Len(cookies[s]) :
              cookies[s][i] = CookieEntry(cookieName[s], id[s])

\* a session was created from a request whose cookie value is an id that was
\* issued, under a signature made for another value
C6_Witness ==
  /\ last.op = "createSession"
  /\ Verified(last.request, last.keys, cookieName[last.s]) = {}
  /\ \E c \in last.request : ~c.sig /\ c.value \in last.issued
  /\ \E d \in last.request : d.sig /\ d.key \in Range(last.keys)

\* C7: when every response so far carried the headers persist() returned after
\* the last refresh of its request, a later request that presents the session
\* cookie of the last response gets a session with the id of the session that
\* answered, and get(k) returns the value stored last under k.
C7_PersistsAcrossRequests ==
  (/\ last.op = "createSession"
   /\ last.presented
   /\ last.by.current
   /\ Verified(last.request, last.keys, cookieName[last.s]) # {}
   /\ kvPath[last.s] = DEFAULT_OPTIONS.kvPath) =>
    /\ id[last.s] = last.by.id
    /\ written.any =>
         GetResult(last.s, AsArray(written.key)) =
           [found |-> written.value # Null, value |-> written.value]

\* the options createSession ended up using
Used(s) ==
  [cookieName |-> cookieName[s], keySpace |-> keyspace[s][1],
   kvPath |-> kvPath[s], signatureKeys |-> keyStack[s]]

\* C8: createSession uses the cookie name, key space and store path (and, in
\* mod.ts, the signing keys) the caller supplies, and the defaults for the
\* options the caller leaves out.
C8_OptionsHonoured ==
  last.op = "createSession" =>
    /\ \A f \in DOMAIN last.options : Used(last.s)[f] = last.options[f]
    /\ \A f \in (DOMAIN DEFAULT_OPTIONS) \ (DOMAIN last.options) :
         Used(last.s)[f] = DEFAULT_OPTIONS[f]

\* the positions of the set-cookie entries for the cookie named name
SessionCookieEntries(headers, name) ==
  {i \in 1..Len(headers) :
     headers[i].header = "set-cookie" /\ headers[i].name = name /\ ~headers[i].sig}

\* the header list carries the entry e of the sources: a set-cookie entry as it
\* is, another one under its lower-case name with the values the sources give
\* that name
Carried(result, sources, e) ==
  IF LowerCase(e.header) = "set-cookie"
    THEN \E j \in 1..Len(result) : result[j] = [e EXCEPT !.header = "set-cookie"]
    ELSE \E j \in 1..Len(result) :
           result[j] = Header(LowerCase(e.header),
                              JoinValues(SelectSeq(sources, LAMBDA x :
                                LowerCase(x.header) = LowerCase(e.header))))

\* C9 as stated: persist(...sources), called when the createSession, destroy()
\* and refresh() calls made so far have returned, returns headers that contain
\* every entry of the sources and exactly one set-cookie entry for the session
\* cookie name, and that entry carries the session's current id.
C9_ExactlyOneSessionCookie ==
  (last.op = "persist" /\ last.idle) =>
    /\ \A i \in 1..Len(last.sources) : Carried(last.result, last.sources, last.sources[i])
    /\ Cardinality(SessionCookieEntries(last.result, last.cookieName)) = 1
    /\ \A j \in SessionCookieEntries(last.result, last.cookieName) :
         last.result[j].value = last.id /\ ~last.result[j].expires

\* C9 amended: persist(...sources), called when the createSession, destroy() and
\* refresh() calls made so far have returned, returns headers that carry every
\* entry of the sources (a name in lower case, the values of one name joined);
\* their set-cookie entries are those of the sources followed by the session's own, of which
\* exactly one is for the session cookie name, carrying the current id and not
\* expired; a session cookie entry a source already carries stays.
C9_OneSessionCookieAfterSources ==
  (last.op = "persist" /\ last.idle) =>
    LET n == Len(SetCookies(last.sources))
        all == SetCookies(last.result)
        own == SubSeq(all, n + 1, Len(all))
    IN /\ \A i \in 1..Len(last.sources) :
            Carried(last.result, last.sources, last.sources[i])
       /\ Len(all) >= n
       /\ SubSeq(all, 1, n) = SetCookies(last.sources)
       /\ own = CookieMapHeaders(cookies[last.s])
       /\ Cardinality(SessionCookieEntries(own, last.cookieName)) = 1
       /\ \A j \in SessionCookieEntries(own, last.cookieName) :
            own[j].value = last.id /\ ~own[j].expires
       /\ Cardinality(SessionCookieEntries(last.result, last.cookieName)) =
            1 + Cardinality(SessionCookieEntries(last.sources, last.cookieName))

\* persist was called, by a session whose id is not the first one issued, with
\* sources that already carry a set-cookie entry for the session cookie
C9_Witness ==
  /\ last.op = "persist"
  /\ last.idle
  /\ SessionCookieEntries(last.sources, last.cookieName) # {}
  /\ last.id # IdNames[1]
  /\ Cardinality(SessionCookieEntries(last.result, last.cookieName)) = 2

\* a store key with every part equal to the old id replaced by the new one
Rewritten(key, oldId, newId) ==
  [i \in DOMAIN key |-> IF key[i] = oldId THEN newId ELSE key[i]]

\* the entry of store at key holds value
Holds(store, key, value) == key \in DOMAIN store /\ store[key] = value

\* C11: at every step of a refresh() call, and so in the state it leaves behind
\* if it stops there, each value that was under the old id when the call began
\* is stored under its original key or under its rewritten key, and the original
\* key of an entry is only about to be deleted once its rewritten key holds the
\* entry's value.
C11_NoLossDuringRefresh ==
  \A s \in Sessions :
    pc[s] \in {"refresh.list", "refresh.set", "refresh.delete", "refresh.update"} =>
      /\ \A k \in DOMAIN pre[s].store :
           Within(k, <<keyspace[s][1], pre[s].id>>) =>
             \/ Holds(Store(s), k, pre[s].store[k])
             \/ Holds(Store(s), Rewritten(k, pre[s].id, freshId[s]), pre[s].store[k])
      /\ pc[s] = "refresh.delete" =>
           Holds(Store(s), Rewritten(Head(iter[s]).key, pre[s].id, freshId[s]),
                 Head(iter[s]).value)

\* a refresh of two entries stands between the write and the delete of the
\* second one: the first is moved, the second is under both ids
C11_Witness ==
  /\ pc[1] = "refresh.delete"
  /\ Len(iter[1]) = 1
  /\ Len(KvList(pre[1].store, <<keyspace[1][1], pre[1].id>>)) = 2
  /\ Head(iter[1]).key \in DOMAIN Store(1)
  /\ Cardinality(DOMAIN Store(1)) = 3

\* the session has an id, and its jar holds one entry for the session cookie,
\* which carries that id and is no deletion
Consistent(s) ==
  LET own == SessionCookieEntries(CookieMapHeaders(cookies[s]), cookieName[s])
  IN /\ id[s] \in Ids
     /\ Cardinality(own) = 1
     /\ \A j \in own : /\ CookieMapHeaders(cookies[s])[j].value = id[s]
                       /\ ~CookieMapHeaders(cookies[s])[j].expires

\* C12: whenever createSession, destroy() or refresh() has returned (and as long
\* as the session is between calls) the session has an id and the pending
\* session cookie carries exactly that id, refresh() returns that id, and set,
\* delete, persist and send leave the id and the cookies as they were (get and
\* list change nothing at all).
C12_IdCookieConsistency ==
  [][\A s \in Sessions :
       /\ pc'[s] = "idle" => Consistent(s)'
       /\ (last'.s = s /\ last'.op = "refresh") => last'.result = id'[s]
       /\ (last'.s = s /\ last'.op \in {"set", "delete", "persist", "send"}) =>
            /\ id'[s] = id[s]
            /\ cookies'[s] = cookies[s]
            /\ pc'[s] = pc[s]
    ]_vars

\* destroy() has returned on a session that was refreshed before
C12_Witness ==
  /\ last.op = "destroy"
  /\ last.old = IdNames[2]
  /\ id[1] = IdNames[3]
  /\ pc[1] = "idle"

\* what the call that just returned listed: the keys under the old id when it
\* began, and those set between the call and the iterator's first pull
ListedKeys ==
  {k \in DOMAIN last.before : HasPrefix(k, <<keyspace[last.s][1], last.old>>)}
    \cup {last.raced[i].addr : i \in {i \in 1..Len(last.raced) :
            /\ last.raced[i].at \in {"refresh.list", "destroy.list"}
            /\ HasPrefix(last.raced[i].addr, <<keyspace[last.s][1], last.old>>)}}

\* when the i-th racing set landed, relative to the call
Early(i) == last.raced[i].at \in {"refresh.list", "destroy.list"}
Pending(i) ==
  /\ ~Early(i)
  /\ \E j \in 1..Len(last.raced[i].todo) : last.raced[i].todo[j].key = last.raced[i].addr
Late(i) == ~Early(i) /\ ~Pending(i) /\ last.raced[i].addr \in ListedKeys
Unlisted(i) == ~Early(i) /\ ~Pending(i) /\ last.raced[i].addr \notin ListedKeys

\* no later racing set wrote the same key
FinalOnKey(i) ==
  \A j \in (i + 1)..Len(last.raced) : last.raced[j].addr # last.raced[i].addr
\* no later racing set wrote the same key before the listing
LastEarly(i) ==
  /\ Early(i)
  /\ \A j \in (i + 1)..Len(last.raced) :
       Early(j) => last.raced[j].addr # last.raced[i].addr

\* the key under the new id that refresh writes for a key under the old id
NewKey(i) == Rewritten(last.raced[i].addr, last.old, last.result)

\* the outcomes for the value of the i-th racing set
Migrated(i) ==
  /\ Holds(Store(last.s), NewKey(i), last.raced[i].value)
  /\ ~Holds(Store(last.s), last.raced[i].addr, last.raced[i].value)
DeletedAltogether(i) ==
  /\ last.raced[i].addr \notin DOMAIN Store(last.s)
  /\ \E j \in 1..Len(last.raced[i].todo) :
       /\ last.raced[i].todo[j].key = last.raced[i].addr
       /\ Holds(Store(last.s), NewKey(i), last.raced[i].todo[j].value)
LeftBehind(i) ==
  /\ Holds(Store(last.s), last.raced[i].addr, last.raced[i].value)
  /\ NewKey(i) \notin DOMAIN Store(last.s)
Duplicated(i) ==
  /\ Holds(Store(last.s), last.raced[i].addr, last.raced[i].value)
  /\ NewKey(i) \in DOMAIN Store(last.s)

\* C13: when set calls of another session object bound to the same id land
\* during a refresh(), the timing decides the outcome: a value set to a listed
\* key before the listing is written under the new id (migrated); a value set
\* to a listed key after the listing and before its delete is deleted with the
\* key while the stale listed value is what the new id gets, and a value set to
\* a key that was not listed stays under the old id only (lost); a value set to
\* a listed key after its delete stays under the old id next to the copy under
\* the new id (duplicated).
C13_RaceOutcomes ==
  (last.op = "refresh" /\ last.raced # <<>>) =>
    \A i \in 1..Len(last.raced) :
      /\ (LastEarly(i) /\ last.raced[i].addr \in ListedKeys) =>
           Holds(Store(last.s), NewKey(i), last.raced[i].value)
      /\ (LastEarly(i) /\ FinalOnKey(i) /\ last.raced[i].addr \in ListedKeys) =>
           Migrated(i)
      /\ (Pending(i) /\ FinalOnKey(i)) => DeletedAltogether(i)
      /\ (Unlisted(i) /\ FinalOnKey(i)) => LeftBehind(i)
      /\ (Early(i) /\ FinalOnKey(i) /\ last.raced[i].addr \notin ListedKeys) =>
           LeftBehind(i)
      /\ (Late(i) /\ FinalOnKey(i)) => Duplicated(i)

\* one refresh raced by two sets of the same key: "bob" before the listing is
\* now only under the new id, "eve" after the delete is under the old id next
\* to the copy
C13_Witness ==
  /\ last.op = "refresh"
  /\ Len(last.raced) = 2
  /\ last.raced[1].addr = last.raced[2].addr
  /\ Early(1) /\ Late(2)
  /\ <<last.raced[1].value, last.raced[2].value>> = <<"bob", "eve">>
  /\ Holds(Store(last.s), NewKey(1), "bob")
  /\ Duplicated(2)

\* the store keys the racing sets wrote
RacedKeys == {last.raced[i].addr : i \in 1..Len(last.raced)}

\* C14: when destroy() has returned after racing set calls of another session
\* object bound to the same id, every entry that was at or under [keySpace, A]
\* when the call began and that no racing set re-wrote is absent, and every
\* entry that is at or under [keySpace, A] now was written by a racing set.
C14_DestroyLeavesOnlyRacedEntries ==
  last.op = "destroy" =>
    LET old == <<keyspace[last.s][1], last.old>>
    IN /\ \A k \in DOMAIN last.before :
            (Within(k, old) /\ k \notin RacedKeys) => k \notin DOMAIN Store(last.s)
       /\ \A k \in DOMAIN Store(last.s) :
            Within(k, old) =>
              \E i \in 1..Len(last.raced) :
                /\ last.raced[i].addr = k
                /\ FinalOnKey(i)
                /\ last.raced[i].value = Store(last.s)[k]

\* C15: refresh() moves each listed entry to the key in which every part equal
\* to the old id, at whatever index, is the new id and every other part is as it
\* was: after the call that key holds the entry's value and the original key is
\* gone.
C15_EveryPartReplaced ==
  last.op = "refresh" =>
    \A i \in 1..Len(ListedBefore) :
      LET key == ListedBefore[i].key
          moved == [j \in 1..Len(key) |->
                      IF key[j] = last.old THEN last.result ELSE key[j]]
      IN /\ moved \in DOMAIN Store(last.s)
         /\ Store(last.s)[moved] = ListedBefore[i].value
         /\ key \notin DOMAIN Store(last.s)
         /\ \A j \in 1..Len(key) : moved[j] # last.old

\* a refresh moved an entry whose sub-key is the old id itself, next to one
\* whose sub-key is a plain name
C15_Witness ==
  /\ last.op = "refresh"
  /\ <<keyspace[last.s][1], last.old, last.old>> \in DOMAIN last.before
  /\ <<keyspace[last.s][1], last.old, "name">> \in DOMAIN last.before
  /\ <<keyspace[last.s][1], last.result, last.result>> \in DOMAIN Store(last.s)
  /\ <<keyspace[last.s][1], last.result, "name">> \in DOMAIN Store(last.s)

\* C16: a set(k, v) or delete(k) step changes at most the entry at
\* [keySpace, id] ++ normalize(k); every step of a destroy() on id A changes only
\* entries at or under [keySpace, A]; every step of a refresh() from A to B
\* changes only entries at or under [keySpace, A] or [keySpace, B]; createSession
\* and a failing store call change no entry (get and list change nothing at
\* all).
C16_Frame ==
  [][/\ last'.op \in {"set", "delete"} =>
          Touched \subseteq {Namespace(last'.s) \o Normalize(last'.key)}
     /\ last'.op \in {"destroy.list", "destroy.delete", "destroy.cookie", "destroy"} =>
          \A k \in Touched : Within(k, <<keyspace[last'.s][1], pre[last'.s].id>>)
     /\ last'.op \in {"refresh.list", "refresh.set", "refresh.delete", "refresh"} =>
          \A k \in Touched :
            \/ Within(k, <<keyspace[last'.s][1], pre[last'.s].id>>)
            \/ Within(k, <<keyspace[last'.s][1], freshId[last'.s]>>)
     /\ last'.op \in {"createSession", "destroy.call", "refresh.call",
                      "destroy.failed", "refresh.failed"} =>
          Touched = {}
    ]_vars

\* a destroy that deleted an entry has returned, and an entry under another id
\* is as it was before the call
C16_Witness ==
  /\ last.op = "destroy"
  /\ ListedBefore # <<>>
  /\ \E k \in DOMAIN Store(last.s) :
       /\ ~Within(k, <<keyspace[last.s][1], last.old>>)
       /\ ~Within(k, Namespace(last.s))
       /\ k \in DOMAIN last.before
       /\ last.before[k] = Store(last.s)[k]

\* the entries a list() call of session s returns, as a set
Listed(s) == {ListResult(s)[i] : i \in 1..Len(ListResult(s))}

\* the entries stored at or under [keySpace, id]: what set calls through the
\* session wrote and no delete removed
Live(s) ==
  {[key |-> k, value |-> Store(s)[k]] :
     k \in {k \in DOMAIN Store(s) : Within(k, Namespace(s))}}

\* C17: list() returns exactly the entries stored at or under [keySpace, id]:
\* the entry of the sub-key just set, whatever its length, with the value set,
\* no entry for the sub-key just deleted, and nothing from any other key.
C17_ListReturnsLiveEntries ==
  \A s \in Sessions :
    pc[s] = "idle" =>
      /\ Listed(s) = Live(s)
      /\ (last.op = "set" /\ last.s = s) =>
           [key |-> last.addr, value |-> last.value] \in Listed(s)
      /\ (last.op = "delete" /\ last.s = s) =>
           \A e \in Listed(s) : e.key # last.addr

\* of the entries the failed call had listed, those it had not finished with
Remaining ==
  IF last.at \in {"refresh.list", "destroy.list"}
    THEN {ListedBefore[i] : i \in 1..Len(ListedBefore)}
    ELSE {last.todo[i] : i \in 1..Len(last.todo)}

\* and those it had finished with
Processed == {ListedBefore[i] : i \in 1..Len(ListedBefore)} \ Remaining

\* the store keys the failed call has written before the failure
WrittenSoFar ==
  IF last.op = "destroy.failed" THEN {}
  ELSE {Rewritten(e.key, last.old, last.fresh) : e \in Processed}
         \cup (IF last.at = "refresh.delete"
                 THEN {Rewritten(Head(last.todo).key, last.old, last.fresh)}
                 ELSE {})

\* C18: when a store call of refresh() or destroy() has failed, the call is over
\* (nothing retried), the session's id is the id it had before the call and its
\* pending cookie carries that id, every entry processed before the failure is
\* gone from its old key and, for refresh, stored with its value under the
\* rewritten key, every other listed entry is under its old key with its value
\* (the one whose copy was written and whose delete failed has its copy under
\* the new id as well), and no other entry of the store has changed.
C18_FailureLeavesPartialWork ==
  last.op \in {"refresh.failed", "destroy.failed"} =>
    /\ pc[last.s] = "idle"
    /\ id[last.s] = last.old
    /\ Consistent(last.s)
    /\ \A e \in Processed :
         /\ e.key \notin DOMAIN Store(last.s)
         /\ last.op = "refresh.failed" =>
              Holds(Store(last.s), Rewritten(e.key, last.old, last.fresh), e.value)
    /\ \A e \in Remaining : Holds(Store(last.s), e.key, e.value)
    /\ last.at = "refresh.delete" =>
         Holds(Store(last.s), Rewritten(Head(last.todo).key, last.old, last.fresh),
               Head(last.todo).value)
    /\ \A k \in (DOMAIN Store(last.s)) \cup (DOMAIN last.before) :
         (k \notin WrittenSoFar /\ k \notin {e.key : e \in Processed}) =>
           KvGet(Store(last.s), k) = KvGet(last.before, k)

\* refresh() failed at the write of its second entry: one entry is migrated, one
\* is where it was
C18_Witness ==
  /\ last.op = "refresh.failed"
  /\ last.at = "refresh.set"
  /\ Cardinality(Processed) = 1
  /\ Cardinality(Remaining) = 1

\* C19: a refresh() writes only under the new id's prefix and never at or under
\* the prefix it enumerates, a destroy() adds no entry, and, every store call
\* returning and the concurrent writes being finitely many, a destroy() or
\* refresh() under way eventually returns or fails.
C19_CallsEnd ==
  /\ [][/\ last'.op = "refresh.set" =>
             /\ Touched \subseteq {last'.addr}
             /\ Within(last'.addr, <<keyspace[last'.s][1], freshId[last'.s]>>)
             /\ ~Within(last'.addr, Key(last'.s))
        /\ last'.op \in {"destroy.call", "destroy.list", "destroy.delete",
                         "destroy.cookie", "destroy"} =>
             \A p \in KvPaths : DOMAIN kv'[p] \subseteq DOMAIN kv[p]
       ]_vars
  /\ \A s \in Sessions : (pc[s] \in InCall) ~> (pc[s] = "idle")

\* a refresh() that listed an entry and was raced by a set has returned
C19_Witness ==
  /\ last.op = "refresh"
  /\ Len(ListedBefore) = 1
  /\ last.raced # <<>>

====
